---------------------------- MODULE Spec2Model ----------------------------
(***************************************************************************)
(* A model of vision/_s3_utils.py: helper functions over an S3 bucket.     *)
(*                                                                         *)
(* A Python str is a sequence of one-character strings.  The bucket is a   *)
(* function from object key to content, the local file system is a set of *)
(* directories and a function from file path to content.  Every step of  *)
(* a loop makes one network call, whose outcome the environment chooses:  *)
(* an iteration of the download loop is one step (download_file), an      *)
(* iteration of the upload loop is two (load, then upload_file).           *)
(***************************************************************************)
EXTENDS Integers, Sequences, FiniteSets

VARIABLES
    bucket,                 \* remote store: object key -> content
    dirs,                   \* local directories that exist
    files,                  \* local files: path -> content
    pc,                     \* "idle", "downloading", "uploading", "putting",
                            \* "done", "raised"
    op,                     \* the function the caller invoked
    s3_dir_path,            \* argument of s3_download_dir / highest_numbered_file
    file_type,              \* argument (None when not given)
    filter_keyword,         \* argument (None when not given)
    object_names,           \* result of s3_get_object_names_from_dir
    file_names,             \* candidates of s3_download_highest_numbered_file
    highest_numbered_file,  \* its selection (None before / without a selection)
    s3_object_paths,        \* argument of s3_download_files
    object_summary_list,    \* s3_download_files: the keys left after the filter
    object_index,           \* s3_download_files: loop position (1-based here)
    download_calls,         \* the key lists s3_download_files was called with
    transfers,              \* the download_file calls issued, in order
    files_to_send,          \* argument of s3_upload_files
    s3_destination_object_dir, \* argument of s3_upload_files
    notify_if_exists,       \* argument of s3_upload_files
    file_index,             \* s3_upload_files: loop position (1-based here)
    checked,                \* s3_upload_files: load() outcome and the result of
                            \* s3_file_exists for the file about to be uploaded
    uplog,                  \* one entry per file s3_upload_files processed
    run,                    \* "first" or "second" run of s3_upload_files
    first_run,              \* summary of the first run, kept for the second:
                            \* whether it met an exception, the keys it uploaded
                            \* or found existing, the number of its uploads
    bucket0,                \* bucket when the current call started
    dirs0,                  \* dirs when the current call started
    files0                  \* files when the current call started

vars == <<bucket, dirs, files, pc, op, s3_dir_path, file_type, filter_keyword,
          object_names, file_names, highest_numbered_file, s3_object_paths,
          object_summary_list, object_index, download_calls, transfers,
          files_to_send, s3_destination_object_dir, notify_if_exists,
          file_index, checked, uplog, run, first_run, bucket0, dirs0,
          files0>>

downloadVars == <<s3_dir_path, file_type, filter_keyword, object_names,
                  file_names, highest_numbered_file, s3_object_paths,
                  object_summary_list, object_index, download_calls,
                  transfers, dirs, files, dirs0, files0>>

uploadVars == <<files_to_send, s3_destination_object_dir, notify_if_exists,
                file_index, checked, uplog, run, first_run, bucket0>>

---------------------------------------------------------------------------
(* Bounds of the model.                                                    *)

MaxObjects == 3     \* objects in the bucket at the start
MaxKeys == 2        \* length of the key list given to s3_download_files
MaxFiles == 2       \* length of the file list given to s3_upload_files

---------------------------------------------------------------------------
(* Python values and string functions.                                     *)

None == <<"None">>

Slash == <<"/">>

Digits == <<"0", "1", "2", "3", "4", "5", "6", "7", "8", "9">>

UpperCase == <<"A", "B", "C", "D", "E", "F", "G", "H", "I", "J", "K", "L", "M",
               "N", "O", "P", "Q", "R", "S", "T", "U", "V", "W", "X", "Y", "Z">>

LowerCase == <<"a", "b", "c", "d", "e", "f", "g", "h", "i", "j", "k", "l", "m",
               "n", "o", "p", "q", "r", "s", "t", "u", "v", "w", "x", "y", "z">>

Letters == {UpperCase[i] : i \in 1..Len(UpperCase)}
               \cup {LowerCase[i] : i \in 1..Len(LowerCase)}

Characters == Letters \cup {Digits[i] : i \in 1..Len(Digits)} \cup {"/", "."}

\* the lower-case form of every character
LowerOf ==
    [c \in Characters |->
        IF \E i \in 1..Len(UpperCase) : UpperCase[i] = c
        THEN LowerCase[CHOOSE i \in 1..Len(UpperCase) : UpperCase[i] = c]
        ELSE c]

\* the value of every decimal digit
ValueOf == [i \in 1..Len(Digits) |-> i - 1]

IsDigit(c) == c \in {"0", "1", "2", "3", "4", "5", "6", "7", "8", "9"}

DigitValue(c) == ValueOf[CHOOSE i \in 1..Len(Digits) : Digits[i] = c]

\* str.lower() on one character
lower_char(c) == LowerOf[c]

\* str.lower()
lower(s) == [i \in 1..Len(s) |-> lower_char(s[i])] \o <<>>

\* str.endswith(suffix)
endswith(s, suffix) ==
    /\ Len(suffix) <= Len(s)
    /\ SubSeq(s, Len(s) - Len(suffix) + 1, Len(s)) = suffix

\* str.startswith(prefix): the Prefix= filter of the object listing
startswith(s, prefix) ==
    /\ Len(prefix) <= Len(s)
    /\ SubSeq(s, 1, Len(prefix)) = prefix

\* sub in s
contains(s, sub) ==
    \E i \in 0..(Len(s) - Len(sub)) : SubSeq(s, i + 1, i + Len(sub)) = sub

\* position of the last "/" of s, 0 when there is none (str.rfind("/") + 1)
LastSlash(s) ==
    IF \E i \in 1..Len(s) : s[i] = "/"
    THEN CHOOSE i \in 1..Len(s) :
            /\ s[i] = "/"
            /\ \A j \in (i + 1)..Len(s) : s[j] # "/"
    ELSE 0

\* os.path.basename(p)
basename(p) == SubSeq(p, LastSlash(p) + 1, Len(p))

\* p.split("/")[-1]
split_last(p) == SubSeq(p, LastSlash(p) + 1, Len(p))

\* "/".join([a, b])
join_slash(a, b) == a \o Slash \o b

\* os.path.join(a, b) on POSIX
os_path_join(a, b) ==
    IF Len(b) > 0 /\ b[1] = "/" THEN b
    ELSE IF Len(a) = 0 \/ a[Len(a)] = "/" THEN a \o b
    ELSE a \o Slash \o b

RECURSIVE re_match_digits(_)
\* re.match("[0-9]+", s)[0]; the empty sequence stands for "no match"
re_match_digits(s) ==
    IF Len(s) = 0 \/ ~IsDigit(s[1]) THEN <<>>
    ELSE <<s[1]>> \o re_match_digits(Tail(s))

RECURSIVE int(_)
\* int(s) of a string of decimal digits
int(s) ==
    IF Len(s) = 0 THEN 0
    ELSE 10 * int(SubSeq(s, 1, Len(s) - 1)) + DigitValue(s[Len(s)])

\* a plausible slip: the pattern "[0-9]" without "+", one digit only
int_string_sort_one_digit(file_name) ==
    LET match == re_match_digits(basename(file_name))
    IN  IF Len(match) = 0 THEN 0 ELSE int(<<match[1]>>)

_int_string_sort(file_name) ==
    LET match == re_match_digits(basename(file_name))
    IN  IF Len(match) = 0 THEN 0 ELSE int(match)

\* a list sorted by descending key: element i goes to the position that
\* counts the elements before it, those of greater key and, of the elements
\* of equal key, the earlier ones (the later ones when `last` is set)
sorted_reverse_pick(s, last) ==
    LET key == [i \in 1..Len(s) |-> _int_string_sort(s[i])]
        position == [i \in 1..Len(s) |->
                        1 + Cardinality({j \in 1..Len(s) :
                               \/ key[j] > key[i]
                               \/ /\ key[j] = key[i]
                                  /\ IF last THEN j > i ELSE j < i})]
    IN  [k \in 1..Len(s) |-> s[CHOOSE i \in 1..Len(s) : position[i] = k]]

\* a plausible slip: sorted(..., key=...)[::-1], which reverses equal keys too
sorted_then_reversed(s) == sorted_reverse_pick(s, TRUE)

\* sorted(s, key=_int_string_sort, reverse=True): descending and stable, so
\* elements with equal keys keep their original relative order
sorted_reverse(s) == sorted_reverse_pick(s, FALSE)

---------------------------------------------------------------------------
(* The universe of inputs.                                                 *)

K10m == <<"d", "/", "1", "0", "m">>
K3m == <<"d", "/", "3", "m">>
K2M == <<"d", "/", "2", "M">>
Ks10m == <<"d", "/", "s", "/", "1", "0", "m">>
K07e == <<"d", "/", "0", "7", "e">>
Km == <<"d", "/", "m">>
Ks3M == <<"d", "/", "s", "/", "3", "M">>

KeyPool == {K10m, K3m, K2M, Ks10m, K07e, Km, Ks3M}

\* the keys a caller passes to s3_download_files directly
RequestedKeys == {K10m, Ks10m, K3m, K2M}

Prefixes == {<<"d">>, <<"d", "/">>, <<"d", "/", "s">>}

FileTypes == {None, <<"M">>, <<"e">>}

Keywords == {None, <<"M">>, <<"S">>, <<"0">>}

local_dir_path == <<"o">>

InitialLocalFiles == {<<"o", "/", "1", "0", "m">>}

LocalFilesToSend == {<<"i", "/", "1", "0", "m">>, <<"j", "/", "1", "0", "m">>,
                     <<"i", "/", "3", "m">>}

DestinationDirs == {<<"d">>, <<"d", "/", "s">>}

SeqsUpTo(S, n) == UNION {[1..k -> S] : k \in 0..n}

RECURSIVE Permutations(_)
\* the sequences that list every element of S once
Permutations(S) ==
    IF S = {} THEN {<<>>}
    ELSE UNION {{<<x>> \o p : p \in Permutations(S \ {x})} : x \in S}

Put(f, k, v) == [x \in DOMAIN f \cup {k} |-> IF x = k THEN v ELSE f[x]]

---------------------------------------------------------------------------
(* Local file system.                                                      *)

isfile(path) == path \in DOMAIN files

isdir(path) == path \in dirs

\* pathlib.Path(d).mkdir(parents=True, exist_ok=True)
mkdir_parents(d) ==
    dirs \cup {SubSeq(d, 1, i) : i \in {k \in 1..Len(d) :
                                          k = Len(d) \/ d[k + 1] = "/"}}

---------------------------------------------------------------------------
(* Listing.                                                                *)

\* bucket.objects.filter(Prefix=dir_name): the keys under the prefix, in the
\* order the store lists them, which the source does not fix
bucket_objects_filter(dir_name) ==
    Permutations({k \in DOMAIN bucket : startswith(k, dir_name)})

s3_get_object_names_from_dir(listing, ftype) ==
    IF ftype # None
    THEN SelectSeq(listing, LAMBDA name : endswith(lower(name), lower(ftype)))
    ELSE listing

---------------------------------------------------------------------------
(* s3_download_files.                                                      *)

\* a plausible slip: the isfile filter left out
object_summary_list_unfiltered(paths, destination_dir) == paths

\* the keys kept by the comprehension: those whose basename is no local file
object_summary_list_of(paths, destination_dir) ==
    SelectSeq(paths, LAMBDA p :
        ~isfile(os_path_join(destination_dir, basename(p))))

\* the call up to the loop: filter the keys, create the directory
s3_download_files(paths, destination_dir) ==
    LET osl == object_summary_list_of(paths, destination_dir)
    IN  /\ s3_object_paths' = paths
        /\ object_summary_list' = osl
        /\ dirs' = IF isdir(destination_dir) THEN dirs
                   ELSE mkdir_parents(destination_dir)
        /\ object_index' = 1
        /\ download_calls' = Append(download_calls, paths)
        /\ transfers' = <<>>
        /\ pc' = IF Len(osl) = 0 THEN "done" ELSE "downloading"
        /\ UNCHANGED files

\* the outcomes s3_client.download_file can have for a key: the file is
\* written, a ClientError is raised, or an exception of another class is
\* raised (a connection failure, say)
DownloadOutcomes(key) ==
    IF key \in DOMAIN bucket THEN {"ok", "ClientError", "OtherException"}
    ELSE {"ClientError", "OtherException"}

\* one iteration of the loop: one download_file call; a ClientError is
\* printed and the loop goes on, any other exception leaves the call
s3_download_files_loop ==
    /\ pc = "downloading"
    /\ LET key == object_summary_list[object_index]
           path == os_path_join(local_dir_path, basename(key))
       IN  \E outcome \in DownloadOutcomes(key) :
              /\ transfers' = Append(transfers,
                                [key |-> key, path |-> path,
                                 existed |-> isfile(path), outcome |-> outcome])
              /\ files' = IF outcome = "ok" THEN Put(files, path, key) ELSE files
              /\ IF outcome = "OtherException"
                 THEN /\ pc' = "raised"
                      /\ UNCHANGED object_index
                 ELSE /\ object_index' = object_index + 1
                      /\ pc' = IF object_index = Len(object_summary_list)
                               THEN "done" ELSE "downloading"
    /\ UNCHANGED <<bucket, dirs, op, s3_dir_path, file_type, filter_keyword,
                   object_names, file_names, highest_numbered_file,
                   s3_object_paths, object_summary_list, download_calls,
                   dirs0, files0>>
    /\ UNCHANGED uploadVars

\* the caller invokes s3_download_files
Call_s3_download_files ==
    /\ pc = "idle"
    /\ \E paths \in SeqsUpTo(RequestedKeys, MaxKeys) :
          s3_download_files(paths, local_dir_path)
    /\ op' = "s3_download_files"
    /\ UNCHANGED <<bucket, s3_dir_path, file_type, filter_keyword, object_names,
                   file_names, highest_numbered_file, dirs0, files0>>
    /\ UNCHANGED uploadVars

\* the caller invokes s3_download_dir
s3_download_dir ==
    /\ pc = "idle"
    /\ \E dir \in Prefixes :
          \E listing \in bucket_objects_filter(dir), ftype \in FileTypes :
             LET names == s3_get_object_names_from_dir(listing, ftype)
             IN  /\ s3_dir_path' = dir
                 /\ file_type' = ftype
                 /\ object_names' = names
                 /\ s3_download_files(names, local_dir_path)
    /\ op' = "s3_download_dir"
    /\ UNCHANGED <<bucket, filter_keyword, file_names, highest_numbered_file,
                   dirs0, files0>>
    /\ UNCHANGED uploadVars

---------------------------------------------------------------------------
(* s3_download_highest_numbered_file.                                      *)

\* a plausible slip: the keyword branch never taken
keyword_filter_skipped(names, keyword) == names

\* the filter_keyword comprehension
keyword_filter(names, keyword) ==
    IF keyword # None
    THEN SelectSeq(names, LAMBDA n : contains(lower(n), lower(keyword)))
    ELSE names

s3_download_highest_numbered_file ==
    /\ pc = "idle"
    /\ \E dir \in Prefixes :
          \E listing \in bucket_objects_filter(dir),
             ftype \in FileTypes, keyword \in Keywords :
             LET names == s3_get_object_names_from_dir(listing, ftype)
                 basenames == [i \in 1..Len(names) |-> split_last(names[i])]
                 candidates == keyword_filter(basenames, keyword)
             IN  /\ s3_dir_path' = dir
                 /\ file_type' = ftype
                 /\ filter_keyword' = keyword
                 /\ object_names' = names
                 /\ file_names' = candidates
                 /\ IF Len(candidates) = 0
                    THEN /\ pc' = "done"
                         /\ UNCHANGED <<highest_numbered_file, s3_object_paths,
                                        object_summary_list, object_index,
                                        download_calls, transfers, dirs, files>>
                    ELSE LET highest == sorted_reverse(candidates)[1]
                         IN  /\ highest_numbered_file' = highest
                             /\ s3_download_files(<<join_slash(dir, highest)>>,
                                                  local_dir_path)
    /\ op' = "s3_download_highest_numbered_file"
    /\ UNCHANGED <<bucket, dirs0, files0>>
    /\ UNCHANGED uploadVars

---------------------------------------------------------------------------
(* The download side as a state machine.                                   *)

InitialBuckets ==
    {[k \in S |-> "orig"] :
        S \in {T \in SUBSET KeyPool : Cardinality(T) <= MaxObjects}}

InitCommon ==
    /\ pc = "idle"
    /\ op = "none"
    /\ s3_dir_path = None
    /\ file_type = None
    /\ filter_keyword = None
    /\ object_names = <<>>
    /\ file_names = <<>>
    /\ highest_numbered_file = None
    /\ s3_object_paths = <<>>
    /\ object_summary_list = <<>>
    /\ object_index = 1
    /\ download_calls = <<>>
    /\ transfers = <<>>
    /\ files_to_send = <<>>
    /\ s3_destination_object_dir = None
    /\ notify_if_exists = FALSE
    /\ file_index = 1
    /\ checked = None
    /\ uplog = <<>>
    /\ run = "first"
    /\ first_run = None
    /\ bucket0 = bucket
    /\ dirs0 = dirs
    /\ files0 = files

Init ==
    /\ bucket \in InitialBuckets
    /\ \E present \in SUBSET InitialLocalFiles :
          /\ files = [p \in present |-> "orig"]
          /\ dirs \in (IF present = {} THEN {{}, {local_dir_path}}
                       ELSE {{local_dir_path}})
    /\ InitCommon

Next ==
    \/ Call_s3_download_files
    \/ s3_download_dir
    \/ s3_download_highest_numbered_file
    \/ s3_download_files_loop

Spec == Init /\ [][Next]_vars

---------------------------------------------------------------------------
(* s3_file_exists and s3_upload_files.                                     *)

\* the outcomes s3.Object(bucket, key).load() can have: success ("200"), a
\* ClientError with code "404", a ClientError with another code, or an
\* exception of another class (a connection failure, for one)
LoadOutcomes(key) ==
    IF key \in DOMAIN bucket THEN {"200", "403", "500", "OtherException"}
    ELSE {"404", "403", "500", "OtherException"}

\* a plausible slip: every ClientError answered with False
s3_file_exists_swallow(code) ==
    IF code = "200"
    THEN [raised |-> FALSE, value |-> TRUE, code |-> None, type |-> "none"]
    ELSE IF code = "OtherException"
    THEN [raised |-> TRUE, value |-> None, code |-> code, type |-> code]
    ELSE [raised |-> FALSE, value |-> FALSE, code |-> None, type |-> "none"]

\* s3_file_exists, given the outcome of load(): what it returns or raises.
\* An exception that is no ClientError is not handled and passes through.
s3_file_exists(code) ==
    IF code = "200"
    THEN [raised |-> FALSE, value |-> TRUE, code |-> None, type |-> "none"]
    ELSE IF code = "OtherException"
    THEN [raised |-> TRUE, value |-> None, code |-> code, type |-> code]
    ELSE IF code = "404"
    THEN [raised |-> FALSE, value |-> FALSE, code |-> None, type |-> "none"]
    ELSE [raised |-> TRUE, value |-> None, code |-> code,
          type |-> "ClientError"]

\* a plausible slip: the `continue` indented under `if notify_if_exists:`
skip_upload_only_when_notified(exists, notify) == exists /\ notify

\* the `if s3_file_exists(...): ... continue` of the loop body
skip_upload(exists, notify) == exists

\* a plausible slip: the directory given as the key, as the notice prints it
upload_target_dir(destination_dir, destination_path) == destination_dir

\* the key s3.upload_file writes to
upload_target(destination_dir, destination_path) == destination_path

\* a plausible slip: the existence check left outside the try block
except_only_upload(exception) ==
    exception.type = "ClientError" /\ exception.from = "upload_file"

\* except botocore.exceptions.ClientError around the whole loop body
except_ClientError(exception) == exception.type = "ClientError"

NoException == [type |-> "none", from |-> "none"]

\* the outcomes s3.upload_file can have: a file that does not exist locally
\* cannot be read (FileNotFoundError); otherwise the transfer succeeds, fails
\* with a ClientError, or fails with an exception of another class
UploadOutcomes(file_to_send) ==
    IF isfile(file_to_send) THEN {"ok", "ClientError", "OtherException"}
    ELSE {"FileNotFoundError"}

\* where the loop goes after an iteration that ended with `exception`
AfterIteration(exception) ==
    IF exception # NoException /\ ~except_ClientError(exception) THEN "raised"
    ELSE IF file_index = Len(files_to_send) THEN "done"
    ELSE "uploading"

\* first half of an iteration: the key, the call of s3_file_exists (one
\* load() request), and the skip of a file whose object exists
s3_upload_files_check ==
    /\ pc = "uploading"
    /\ LET file_to_send == files_to_send[file_index]
           s3_destination_object_path ==
               join_slash(s3_destination_object_dir, basename(file_to_send))
       IN  \E code \in LoadOutcomes(s3_destination_object_path) :
              LET exists == s3_file_exists(code)
                  skipped == /\ ~exists.raised
                             /\ skip_upload(exists.value, notify_if_exists)
                  exception ==
                      IF exists.raised
                      THEN [type |-> exists.type, from |-> "s3_file_exists"]
                      ELSE NoException
              IN  IF exists.raised \/ skipped
                  THEN /\ uplog' = Append(uplog,
                             [file |-> file_to_send,
                              key |-> s3_destination_object_path,
                              code |-> code,
                              exists |-> exists,
                              existed |-> FALSE,
                              notice |-> skipped /\ notify_if_exists,
                              attempted |-> FALSE,
                              uploaded |-> FALSE,
                              error |-> exception.type])
                       /\ pc' = AfterIteration(exception)
                       /\ file_index' = file_index + 1
                       /\ UNCHANGED checked
                  ELSE /\ checked' = [code |-> code, exists |-> exists]
                       /\ pc' = "putting"
                       /\ UNCHANGED <<uplog, file_index>>
    /\ UNCHANGED <<bucket, op, files_to_send, s3_destination_object_dir,
                   notify_if_exists, run, first_run, bucket0>>
    /\ UNCHANGED downloadVars

\* second half of an iteration: the call of s3.upload_file and the except
\* clause
s3_upload_files_put ==
    /\ pc = "putting"
    /\ LET file_to_send == files_to_send[file_index]
           s3_destination_object_path ==
               join_slash(s3_destination_object_dir, basename(file_to_send))
           target == upload_target(s3_destination_object_dir,
                                   s3_destination_object_path)
       IN  \E upload \in UploadOutcomes(file_to_send) :
              LET exception ==
                      IF upload = "ok" THEN NoException
                      ELSE [type |-> upload, from |-> "upload_file"]
              IN  /\ uplog' = Append(uplog,
                        [file |-> file_to_send,
                         key |-> s3_destination_object_path,
                         code |-> checked.code,
                         exists |-> checked.exists,
                         existed |-> target \in DOMAIN bucket,
                         notice |-> FALSE,
                         attempted |-> TRUE,
                         uploaded |-> upload = "ok",
                         error |-> exception.type])
                  /\ bucket' = IF upload = "ok"
                               THEN Put(bucket, target, file_to_send)
                               ELSE bucket
                  /\ pc' = AfterIteration(exception)
    /\ file_index' = file_index + 1
    /\ checked' = None
    /\ UNCHANGED <<op, files_to_send, s3_destination_object_dir,
                   notify_if_exists, run, first_run, bucket0>>
    /\ UNCHANGED downloadVars

\* the caller invokes s3_upload_files
s3_upload_files ==
    /\ pc = "idle"
    /\ \E to_send \in SeqsUpTo(LocalFilesToSend, MaxFiles),
          dir \in DestinationDirs, notify \in BOOLEAN :
          /\ files_to_send' = to_send
          /\ s3_destination_object_dir' = dir
          /\ notify_if_exists' = notify
          /\ pc' = IF Len(to_send) = 0 THEN "done" ELSE "uploading"
    /\ op' = "s3_upload_files"
    /\ file_index' = 1
    /\ uplog' = <<>>
    /\ UNCHANGED <<bucket, checked, run, first_run, bucket0>>
    /\ UNCHANGED downloadVars

\* the caller invokes s3_upload_files a second time with the same
\* arguments, after the first call returned or raised
s3_upload_files_again ==
    /\ pc \in {"done", "raised"}
    /\ op = "s3_upload_files"
    /\ run = "first"
    /\ run' = "second"
    /\ first_run' = [errors |-> \E i \in 1..Len(uplog) : uplog[i].error # "none",
                     settled |-> {uplog[i].key : i \in {j \in 1..Len(uplog) :
                                    \/ uplog[j].uploaded
                                    \/ /\ ~uplog[j].exists.raised
                                       /\ uplog[j].exists.value = TRUE}},
                     uploads |-> Cardinality({i \in 1..Len(uplog) :
                                                 uplog[i].uploaded})]
    /\ bucket0' = bucket
    /\ file_index' = 1
    /\ uplog' = <<>>
    /\ pc' = IF Len(files_to_send) = 0 THEN "done" ELSE "uploading"
    /\ UNCHANGED <<bucket, checked, op, files_to_send,
                   s3_destination_object_dir, notify_if_exists>>
    /\ UNCHANGED downloadVars

\* the objects present before the first upload
InitialUploadBuckets ==
    {b \in InitialBuckets : DOMAIN b \subseteq {K10m, K3m, Ks10m}}

\* the local directories the paths of files_to_send name
LocalDirsToSend == {<<"i">>, <<"j">>}

\* before the call each of the files to send may exist locally or be missing
InitUpload ==
    /\ bucket \in InitialUploadBuckets
    /\ dirs = LocalDirsToSend
    /\ \E present \in SUBSET LocalFilesToSend :
          files = [p \in present |-> "orig"]
    /\ InitCommon

NextUpload ==
    \/ s3_upload_files
    \/ s3_upload_files_check
    \/ s3_upload_files_put
    \/ s3_upload_files_again

SpecUpload == InitUpload /\ [][NextUpload]_vars

---------------------------------------------------------------------------
(* Properties of the download side, checked under Spec.                    *)

IsHighestCall == op = "s3_download_highest_numbered_file"

\* the number of digits the basename starts with
LeadingDigitCount(s) ==
    CHOOSE n \in 0..Len(s) :
        /\ \A i \in 1..n : IsDigit(s[i])
        /\ n = Len(s) \/ ~IsDigit(s[n + 1])

RECURSIVE Power10(_)
Power10(n) == IF n = 0 THEN 1 ELSE 10 * Power10(n - 1)

RECURSIVE DecimalSum(_, _, _)
DecimalSum(s, i, n) ==
    IF i > n THEN 0
    ELSE DigitValue(s[i]) * Power10(n - i) + DecimalSum(s, i + 1, n)

\* the leading-integer rank of a basename: the value of the longest run of
\* digits it starts with, 0 when it starts with none
LeadingIntegerRank(s) == DecimalSum(s, 1, LeadingDigitCount(s))

\* the keys of the bucket under the prefix that pass the suffix filter and
\* whose basename contains the keyword, both compared case-insensitively
CandidateKeys ==
    {k \in DOMAIN bucket :
        /\ startswith(k, s3_dir_path)
        /\ file_type # None => endswith(lower(k), lower(file_type))
        /\ filter_keyword # None =>
              contains(lower(basename(k)), lower(filter_keyword))}

CandidateNames == {basename(k) : k \in CandidateKeys}

\* the path s3_download_files writes a key to
LocalPathOf(key) == os_path_join(local_dir_path, basename(key))

\* C1: every transfer s3_download_files issues writes to a path at which no
\* file exists when that transfer starts
C1_NeverOverwritesLocalFile ==
    \A i \in 1..Len(transfers) : ~transfers[i].existed

\* C4: the selected basename is a candidate whose leading-integer rank is
\* greater than or equal to the rank of every candidate
C4_SelectsGreatestRank ==
    (IsHighestCall /\ CandidateNames # {}) =>
        /\ highest_numbered_file \in CandidateNames
        /\ \A c \in CandidateNames :
              LeadingIntegerRank(highest_numbered_file) >= LeadingIntegerRank(c)

\* C4 happens: "10m" is selected among the candidates "10m", "3m" and "2M"
C4_Witness ==
    /\ IsHighestCall
    /\ {<<"1", "0", "m">>, <<"3", "m">>, <<"2", "M">>} \subseteq CandidateNames
    /\ filter_keyword = <<"M">>
    /\ highest_numbered_file = <<"1", "0", "m">>

\* C5: with a candidate left, s3_download_files is called once, with exactly
\* one key, and that key is the listed key of the selected candidate
C5_DownloadsTheListedKey ==
    (IsHighestCall /\ Len(file_names) > 0) =>
        /\ Len(download_calls) = 1
        /\ Len(download_calls[1]) = 1
        /\ \E i \in 1..Len(object_names) :
              /\ object_names[i] = download_calls[1][1]
              /\ split_last(object_names[i]) = highest_numbered_file

\* C7: the transfers attempted so far are, in order, the first keys of the
\* input list whose basename was no local file when the call started; a
\* transfer that succeeded or raised a ClientError is followed by the next
\* key, so when the call has returned they are all of them, and the call
\* stops short of that only at a transfer that raised another exception
C7_TransfersAreTheMissingKeysInOrder ==
    LET missing == SelectSeq(s3_object_paths,
                             LAMBDA p : LocalPathOf(p) \notin DOMAIN files0)
    IN  /\ Len(transfers) <= Len(missing)
        /\ \A i \in 1..Len(transfers) :
              /\ transfers[i].key = missing[i]
              /\ (transfers[i].outcome \in {"ok", "ClientError"}
                    /\ i < Len(missing)) =>
                    \/ Len(transfers) > i
                    \/ pc = "downloading" /\ object_index = i + 1
              /\ transfers[i].outcome = "OtherException" =>
                    i = Len(transfers) /\ pc = "raised"
        /\ pc = "raised" =>
              /\ Len(transfers) > 0
              /\ transfers[Len(transfers)].outcome = "OtherException"
        /\ (pc = "done" /\ Len(download_calls) > 0) =>
              Len(transfers) = Len(missing)

\* C7 happens: the first transfer failed and the second was still attempted
C7_Witness ==
    /\ pc = "done"
    /\ op = "s3_download_files"
    /\ Len(transfers) = 2
    /\ transfers[1].outcome = "ClientError"
    /\ transfers[2].outcome = "ok"

\* C9: with no candidate left the call has returned without calling
\* s3_download_files, without a transfer, and with the local files and
\* directories as they were
C9_NoCandidateIsNoOp ==
    (IsHighestCall /\ CandidateNames = {}) =>
        /\ pc = "done"
        /\ download_calls = <<>>
        /\ transfers = <<>>
        /\ files = files0
        /\ dirs = dirs0

\* C9 happens: keys are listed, the keyword removes them all, and the
\* destination directory is still absent
C9_Witness ==
    /\ IsHighestCall
    /\ CandidateNames = {}
    /\ Len(object_names) > 0
    /\ filter_keyword # None
    /\ pc = "done"
    /\ ~isdir(local_dir_path)

\* the positions of the candidates of greatest rank, in listing order
TopPositions ==
    {i \in 1..Len(file_names) :
        \A j \in 1..Len(file_names) :
            LeadingIntegerRank(file_names[i]) >= LeadingIntegerRank(file_names[j])}

\* C10: the file selected is the candidate of greatest rank that comes first
\* in the listing order
C10_TieGoesToFirstListed ==
    (IsHighestCall /\ Len(file_names) > 0) =>
        \E i \in TopPositions :
            /\ \A j \in TopPositions : i <= j
            /\ highest_numbered_file = file_names[i]

\* C10 happens: two different basenames share the greatest rank and the one
\* listed first is selected
C10_Witness ==
    /\ IsHighestCall
    /\ \E i, j \in TopPositions :
          /\ i < j
          /\ file_names[i] # file_names[j]
          /\ highest_numbered_file = file_names[i]

---------------------------------------------------------------------------
(* Properties of the upload side, checked under SpecUpload.                *)

\* C2: upload_file is called only for a key at which no object exists at
\* that moment, and every object the bucket held when the call started
\* still has its content
C2_NeverOverwritesRemoteObject ==
    /\ \A i \in 1..Len(uplog) : uplog[i].attempted => ~uplog[i].existed
    /\ \A k \in DOMAIN bucket0 : k \in DOMAIN bucket /\ bucket[k] = bucket0[k]

\* C2 happens: two files share a basename; the first is uploaded and the
\* second is skipped because the object now exists
C2_Witness ==
    /\ Len(uplog) = 2
    /\ uplog[1].file # uplog[2].file
    /\ uplog[1].key = uplog[2].key
    /\ uplog[1].uploaded
    /\ ~uplog[2].attempted
    /\ ~uplog[2].exists.raised

\* C3 as stated: the second run with the same arguments uploads nothing
C3_SecondRunUploadsNothing ==
    run = "second" => \A i \in 1..Len(uplog) : ~uplog[i].uploaded

\* the key s3_upload_files gives a local file
DestinationKey(file_to_send) ==
    join_slash(s3_destination_object_dir, basename(file_to_send))

\* C3 as amended: the second run calls upload_file for no file whose key the
\* first run uploaded or found existing; such a file is skipped as already
\* existing or after a failed existence check.  The second run uploads only
\* files whose key the first run neither uploaded nor found existing, so it
\* uploads nothing when the first run settled every file
C3_SecondRunUploadsOnlyWhatFirstRunMissed ==
    run = "second" =>
        /\ \A i \in 1..Len(uplog) :
              uplog[i].key \in first_run.settled =>
                 /\ ~uplog[i].attempted
                 /\ uplog[i].exists.raised \/ uplog[i].exists.value = TRUE
        /\ (\A k \in 1..Len(files_to_send) :
                DestinationKey(files_to_send[k]) \in first_run.settled) =>
              \A i \in 1..Len(uplog) : ~uplog[i].attempted

\* C3 happens: the first run uploaded one file and met an exception for the
\* other; the second run skipped the first and uploaded the second
C3_Witness ==
    /\ run = "second"
    /\ pc = "done"
    /\ first_run.errors
    /\ first_run.uploads = 1
    /\ Len(uplog) = 2
    /\ uplog[1].key \in first_run.settled
    /\ ~uplog[1].exists.raised
    /\ ~uplog[1].attempted
    /\ uplog[2].key \notin first_run.settled
    /\ uplog[2].uploaded

\* C6: no ClientError leaves s3_upload_files: the call is left early only
\* by an exception of another class, raised by load() or by upload_file.
\* The files are processed in list order, a file that met a ClientError is
\* not uploaded and the loop goes on with the next file, and when the call
\* has returned every file has been processed
C6_ClientErrorNeverAborts ==
    /\ pc = "raised" =>
          uplog[Len(uplog)].error \notin {"none", "ClientError"}
    /\ Len(uplog) <= Len(files_to_send)
    /\ \A i \in 1..Len(uplog) :
          /\ uplog[i].file = files_to_send[i]
          /\ uplog[i].error # "none" => ~uplog[i].uploaded
          /\ uplog[i].exists.raised => ~uplog[i].attempted
          /\ (uplog[i].error = "ClientError" /\ i < Len(files_to_send)) =>
                \/ Len(uplog) > i
                \/ pc \in {"uploading", "putting"}
    /\ pc \in {"uploading", "putting"} =>
          /\ file_index = Len(uplog) + 1
          /\ file_index <= Len(files_to_send)
    /\ pc = "done" => Len(uplog) = Len(files_to_send)

\* C6 happens: the existence check of the first file raised a ClientError
\* with a code other than "404"; the file was not uploaded, the second file
\* was processed and uploaded, and the call returned
C6_Witness ==
    /\ pc = "done"
    /\ Len(uplog) = 2
    /\ uplog[1].code = "403"
    /\ uplog[1].error = "ClientError"
    /\ ~uplog[1].attempted
    /\ uplog[2].uploaded

\* C8: s3_file_exists returns True when load() succeeds, False on the error
\* code "404", and raises the same error for every other code
C8_ExistsResult ==
    \A i \in 1..Len(uplog) :
        LET code == uplog[i].code
            result == uplog[i].exists
        IN  /\ code = "200" => ~result.raised /\ result.value = TRUE
            /\ code = "404" => ~result.raised /\ result.value = FALSE
            /\ code \notin {"200", "404"} =>
                  /\ result.raised
                  /\ result.value = None
                  /\ result.code = code

\* C8 happens: within one call load() succeeded for the first file and
\* failed with the code "500" for the second, which was raised unchanged
C8_Witness ==
    /\ Len(uplog) = 2
    /\ uplog[1].code = "200"
    /\ uplog[1].exists.value = TRUE
    /\ uplog[2].code = "500"
    /\ uplog[2].exists.raised
    /\ uplog[2].exists.code = "500"

=============================================================================
